---- MODULE Spec2Model ----
(***************************************************************************)
(* av-sync (src/main.py): align a video with a separately recorded audio   *)
(* track.  The module models                                               *)
(*   - the script body (__main__) as a sequential process per invocation,  *)
(*     sharing one filesystem (specifications Spec and SpecConc);          *)
(*   - insert_padding / find_offset on explicit sample sequences           *)
(*     (specification SpecOffset);                                         *)
(*   - format_time on integer frame counts (specification SpecFmt).        *)
(* Samples are integers and the correlation is computed exactly; the       *)
(* timecode string HH:MM:SS.mmm is modelled by its four numeric fields.    *)
(***************************************************************************)
EXTENDS Integers, Sequences, FiniteSets, TLC

VARIABLES
    \* ---- the script, one entry per invocation
    pc,          \* position of each invocation in the script
    args,        \* parsed command line and the media files it names
    raw_len,     \* len(audio2) before padding (line 85)
    padded_len,  \* common length after insert_padding (line 87)
    lag,         \* line 93
    ss,          \* line 97
    t,           \* line 98
    exitCode,    \* process exit status, -1 while running
    err,         \* the exception that ended the invocation, "" if none
    log,         \* calls made so far, in order, with their results
    concatRead,  \* whose padding file the concat command read (0: none there)
    \* ---- the filesystem
    dirExists,   \* does cut/ exist
    dir0,        \* did cut/ exist before any invocation started
    padding,     \* per video: 0 if <stem>_empty<ext> is absent, else its writer
    listFile,    \* per invocation: its NamedTemporaryFile exists
    outputs,     \* output files written: <<video, timecode of |lag|>>
    \* ---- the pure functions
    audio1, audio2, fo_pc, fo_lag,
    frame, sample_rate, ft_pc, timecode

runVars == <<pc, args, raw_len, padded_len, lag, ss, t, exitCode, err, log, concatRead>>
fsVars == <<dirExists, dir0, padding, listFile, outputs>>
foVars == <<audio1, audio2, fo_pc, fo_lag>>
ftVars == <<frame, sample_rate, ft_pc, timecode>>
vars == <<runVars, fsVars, foVars, ftVars>>

(***************************************************************************)
(* Bounds and program constants                                            *)
(***************************************************************************)
\* librosa.load(filename, sr=44100)
SampleRate == 44100
\* number of invocations that may run at the same time
NumRuns == 2
\* longest audio track, in seconds
MaxSecs == 2
\* longest sample sequence given to find_offset
MaxLen == 3
\* how many frames around each timecode boundary format_time is applied to
MaxFrameDelta == 30

Runs == 1..NumRuns
Videos == {"a.mp4", "b.mp4"}
NoTime == <<>>

Abs(x) == IF x < 0 THEN -x ELSE x
Max(a, b) == IF a > b THEN a ELSE b

(***************************************************************************)
(* format_time (lines 36-40).  seconds = abs(frame) / sample_rate is kept  *)
(* exact as the pair (abs(frame), sample_rate); divmod by 60 twice; the    *)
(* seconds field is printed by %06.3f, which rounds to the nearest         *)
(* millisecond (ties to even) AFTER the minutes were split off.            *)
(* The result is <<HH, MM, SS, mmm>>.                                      *)
(***************************************************************************)
RoundMillis(num, den) ==
    LET q == (1000 * num) \div den
        r == (1000 * num) % den
    IN  IF 2 * r > den \/ (2 * r = den /\ q % 2 = 1) THEN q + 1 ELSE q

format_time(fr, sr) ==
    LET n       == Abs(fr)
        m0      == n \div (60 * sr)            \* m, s = divmod(seconds, 60)
        srem    == n % (60 * sr)               \* s, in samples
        h       == m0 \div 60                  \* h, m = divmod(m, 60)
        m       == m0 % 60
        millis  == 1000 * (srem \div sr) + RoundMillis(srem % sr, sr)
    IN  <<h, m, millis \div 1000, millis % 1000>>

(***************************************************************************)
(* insert_padding (lines 29-34): the shorter signal is zero-padded at its  *)
(* end to the length of the longer one.                                    *)
(***************************************************************************)
Zeros(n) == [i \in 1..n |-> 0]

insert_padding(a1, a2) ==
    IF Len(a1) > Len(a2)
    THEN <<a1, a2 \o Zeros(Len(a1) - Len(a2))>>
    ELSE <<a1 \o Zeros(Len(a2) - Len(a1)), a2>>

\* the lengths alone, as the script uses them
PaddedLen(l1, l2) == Max(l1, l2)

(***************************************************************************)
(* scipy.signal.correlate(x, y, mode='full') (lines 23 and 91), exactly:   *)
(* z[k] = sum_l x[l] * y[l - k + len(y) - 1], k = 0 .. len(x)+len(y)-2.    *)
(* Sequences are 1-based here: z[k] is correlate(x, y)[k + 1].             *)
(***************************************************************************)
RECURSIVE DotAt(_, _, _, _)
DotAt(x, y, i, l) ==
    IF l = 0 THEN 0
    ELSE DotAt(x, y, i, l - 1)
         + (IF (l - i + Len(y)) \in 1..Len(y) THEN x[l] * y[l - i + Len(y)] ELSE 0)

correlate(x, y) == [i \in 1..(Len(x) + Len(y) - 1) |-> DotAt(x, y, i, Len(x))]

(***************************************************************************)
(* np.argmax (lines 25 and 93): 0-based index of the first maximum.        *)
(***************************************************************************)
RECURSIVE ArgmaxScan(_, _, _)
ArgmaxScan(c, i, best) ==
    IF i > Len(c) THEN best
    ELSE ArgmaxScan(c, i + 1, IF c[i] > c[best] THEN i ELSE best)

RECURSIVE ArgmaxScanLast(_, _, _)
ArgmaxScanLast(c, i, best) ==
    IF i > Len(c) THEN best
    ELSE ArgmaxScanLast(c, i + 1, IF c[i] >= c[best] THEN i ELSE best)

argmax_last(c) == ArgmaxScanLast(c, 2, 1) - 1

argmax(c) == ArgmaxScan(c, 2, 1) - 1

(***************************************************************************)
(* find_offset (lines 20-26; the script repeats it inline, lines 91-93).   *)
(***************************************************************************)
find_offset_swapped(a1, a2) == argmax(correlate(a2, a1)) - Len(a2) + 1

find_offset(a1, a2) == argmax(correlate(a1, a2)) - Len(a2) + 1

(***************************************************************************)
(* The pure functions applied to bounded inputs.                           *)
(***************************************************************************)
Samples == {-1, 0, 1, 2}
Signals == UNION {[1..n -> Samples] : n \in 1..MaxLen}

FoInsertPadding ==
    /\ fo_pc = "loaded"
    /\ audio1' = insert_padding(audio1, audio2)[1]
    /\ audio2' = insert_padding(audio1, audio2)[2]
    /\ fo_pc' = "padded"
    /\ UNCHANGED <<fo_lag, runVars, fsVars, ftVars>>

FoCorrelate ==
    /\ fo_pc = "padded"
    /\ fo_lag' = find_offset(audio1, audio2)
    /\ fo_pc' = "correlated"
    /\ UNCHANGED <<audio1, audio2, runVars, fsVars, ftVars>>

\* frame counts around 0, around the first minute and around the first hour
Frames(sr) ==
    LET near(c) == {c + d : d \in -MaxFrameDelta..MaxFrameDelta}
    IN  near(0) \cup near(60 * sr) \cup near(-60 * sr) \cup near(3600 * sr)
        \cup {3661 * sr, -3661 * sr}

\* rates with fewer than four factors of two: no frame count falls exactly on
\* a half millisecond, so the direction in which the float division rounds
\* never decides a digit
SampleRates == {SampleRate, 22050, 11025}

FtFormat ==
    /\ ft_pc = "input"
    /\ timecode' = format_time(frame, sample_rate)
    /\ ft_pc' = "formatted"
    /\ UNCHANGED <<frame, sample_rate, runVars, fsVars, foVars>>

(***************************************************************************)
(* The script (lines 67-176).                                              *)
(***************************************************************************)
\* what ffprobe reports for the video file (get_stream_info, lines 43-64):
\* st = "error" (non-zero return code), "nostreams", or "ok" with the codec
\* of the first video and of the first audio stream ("none": no such stream)
ProbeResults ==
    {[st |-> "error", vcodec |-> "none", acodec |-> "none"],
     [st |-> "nostreams", vcodec |-> "none", acodec |-> "none"]}
    \cup {p \in [st : {"ok"}, vcodec : {"h264", "hevc", "none"},
                 acodec : {"aac", "mp3", "none"}] :
            ~(p.vcodec = "none" /\ p.acodec = "none")}

\* track lengths in samples
Lens == {k * SampleRate : k \in 1..MaxSecs}

\* the command line and the files it names
ArgSet ==
    [check : BOOLEAN, video : Videos, probe : ProbeResults,
     audioOk : BOOLEAN, len1 : Lens, len2 : Lens]

DefaultArgs ==
    [check |-> FALSE, video |-> "a.mp4",
     probe |-> [st |-> "ok", vcodec |-> "h264", acodec |-> "aac"],
     audioOk |-> TRUE, len1 |-> SampleRate, len2 |-> SampleRate]

\* the lags the correlation of two signals of length n can give, lines 91-93:
\* argmax ranges over 0 .. 2n-2.  The extremes, the values around the sign
\* change and a whole second.
Lags(n) ==
    {l \in {-(n - 1), -SampleRate, -1, 0, 1, SampleRate, n - 1} :
        -(n - 1) <= l /\ l <= n - 1}

Ev(op, a, b, st, who) == [op |-> op, a |-> a, b |-> b, st |-> st, who |-> who]

Logged(r, e) == log' = [log EXCEPT ![r] = Append(@, e)]

Goto(r, p) ==
    /\ pc' = [pc EXCEPT ![r] = p]
    /\ UNCHANGED <<exitCode, err>>

\* the interpreter ends: sys.exit, the end of the script, or an uncaught
\* exception (exit status 1)
Finish(r, code, e) ==
    /\ pc' = [pc EXCEPT ![r] = "done"]
    /\ exitCode' = [exitCode EXCEPT ![r] = code]
    /\ err' = [err EXCEPT ![r] = e]

\* subprocess.run(cmd) without check=True: the command ends with status 0 or
\* with a failure status, neither of which raises; or launching it raises
CmdOutcomes == {"ok", "nonzero", "raise"}

\* line 75, get_stream_info
GetStreamInfo(r) ==
    /\ pc[r] = "start"
    /\ Logged(r, Ev("probe", NoTime, NoTime, args[r].probe.st, 0))
    /\ IF args[r].probe.st = "ok"
       THEN Goto(r, "probed")
       ELSE Finish(r, 1, "probe")
    /\ UNCHANGED <<args, raw_len, padded_len, lag, ss, t, concatRead, fsVars, foVars, ftVars>>

MakedirsAlways(r) ==
    /\ pc[r] = "probed"
    /\ dirExists' = TRUE
    /\ Logged(r, Ev("makedirs", NoTime, NoTime, "ok", 0))
    /\ Goto(r, "assert")
    /\ UNCHANGED <<args, raw_len, padded_len, lag, ss, t, concatRead,
                   dir0, padding, listFile, outputs, foVars, ftVars>>

\* lines 77-78
Makedirs(r) ==
    /\ pc[r] = "probed"
    /\ ~args[r].check
    /\ dirExists' = TRUE
    /\ Logged(r, Ev("makedirs", NoTime, NoTime, "ok", 0))
    /\ Goto(r, "assert")
    /\ UNCHANGED <<args, raw_len, padded_len, lag, ss, t, concatRead,
                   dir0, padding, listFile, outputs, foVars, ftVars>>

\* lines 79-80; video["codec_name"] on a missing stream is a TypeError
AssertCodec(r) ==
    /\ pc[r] = "assert"
    /\ LET p == args[r].probe
           res == IF p.vcodec = "none" THEN "nostream"
                  ELSE IF p.vcodec # "h264" THEN "codec"
                  ELSE IF p.acodec = "none" THEN "nostream"
                  ELSE IF p.acodec # "aac" THEN "codec"
                  ELSE "ok"
       IN  /\ Logged(r, Ev("assert", NoTime, NoTime, res, 0))
           /\ IF res = "ok" THEN Goto(r, "asserted") ELSE Finish(r, 1, res)
    /\ UNCHANGED <<args, raw_len, padded_len, lag, ss, t, concatRead, fsVars, foVars, ftVars>>

\* lines 83-87: both tracks are decoded, then padded to a common length
LoadAudio(r) ==
    /\ \/ pc[r] = "probed" /\ args[r].check
       \/ pc[r] = "asserted"
    /\ LET ok == args[r].probe.acodec # "none" /\ args[r].audioOk
       IN  /\ Logged(r, Ev("load", NoTime, NoTime, IF ok THEN "ok" ELSE "raise", 0))
           /\ IF ok
              THEN /\ raw_len' = [raw_len EXCEPT ![r] = args[r].len2]
                   /\ padded_len' = [padded_len EXCEPT ![r] =
                                        PaddedLen(args[r].len1, args[r].len2)]
                   /\ Goto(r, "loaded")
              ELSE /\ UNCHANGED <<raw_len, padded_len>>
                   /\ Finish(r, 1, "decode")
    /\ UNCHANGED <<args, lag, ss, t, concatRead, fsVars, foVars, ftVars>>

\* lines 91-100
Correlate(r) ==
    /\ pc[r] = "loaded"
    /\ \E l \in Lags(padded_len[r]) :
        /\ lag' = [lag EXCEPT ![r] = l]
        /\ ss' = [ss EXCEPT ![r] = format_time(l, SampleRate)]
        /\ t' = [t EXCEPT ![r] = format_time(raw_len[r], SampleRate)]
        /\ Logged(r, Ev("print", format_time(l, SampleRate),
                        format_time(raw_len[r], SampleRate), "ok", 0))
    /\ Goto(r, "printed")
    /\ UNCHANGED <<args, raw_len, padded_len, concatRead, fsVars, foVars, ftVars>>

\* lines 102-103
CheckExit(r) ==
    /\ pc[r] = "printed"
    /\ args[r].check
    /\ Logged(r, Ev("exit", NoTime, NoTime, "ok", 0))
    /\ Finish(r, 0, "")
    /\ UNCHANGED <<args, raw_len, padded_len, lag, ss, t, concatRead, fsVars, foVars, ftVars>>

BranchNonPositive(l) == IF l <= 0 THEN "backward" ELSE "forward"

\* line 112 / line 164
Branch(l) == IF l < 0 THEN "backward" ELSE "forward"

\* lines 105-112
OutputName(r) ==
    /\ pc[r] = "printed"
    /\ ~args[r].check
    /\ Logged(r, Ev("print_name", format_time(Abs(lag[r]), SampleRate), NoTime, "ok", 0))
    /\ Goto(r, Branch(lag[r]))
    /\ UNCHANGED <<args, raw_len, padded_len, lag, ss, t, concatRead, fsVars, foVars, ftVars>>

(***************************************************************************)
(* lag < 0: pad and concat (lines 112-162).                                *)
(***************************************************************************)
\* lines 115-135: the command is launched with -t ss and output path
\* cut/<stem>_empty<ext>
SynthStart(r) ==
    /\ pc[r] = "backward"
    /\ Logged(r, Ev("synth", ss[r], NoTime, "start", 0))
    /\ Goto(r, "synth_running")
    /\ UNCHANGED <<args, raw_len, padded_len, lag, ss, t, concatRead, fsVars, foVars, ftVars>>

\* line 135 returns.  A failing ffmpeg may or may not leave a (partial) file.
SynthEnd(r) ==
    /\ pc[r] = "synth_running"
    /\ \E o \in CmdOutcomes, wrote \in BOOLEAN :
        /\ o = "ok" => wrote
        /\ o = "raise" => ~wrote
        /\ padding' = IF wrote THEN [padding EXCEPT ![args[r].video] = r] ELSE padding
        /\ Logged(r, Ev("synth_end", NoTime, NoTime, o,
                        IF wrote THEN padding[args[r].video] ELSE 0))
        /\ IF o = "raise" THEN Finish(r, 1, "oserror") ELSE Goto(r, "synth_done")
    /\ UNCHANGED <<args, raw_len, padded_len, lag, ss, t, concatRead,
                   dirExists, dir0, listFile, outputs, foVars, ftVars>>

\* lines 137-146: the concat list goes to a NamedTemporaryFile of its own
WriteList(r) ==
    /\ pc[r] = "synth_done"
    /\ listFile' = [listFile EXCEPT ![r] = TRUE]
    /\ Logged(r, Ev("write_list", NoTime, NoTime, "ok", 0))
    /\ Goto(r, "list_written")
    /\ UNCHANGED <<args, raw_len, padded_len, lag, ss, t, concatRead,
                   dirExists, dir0, padding, outputs, foVars, ftVars>>

\* lines 148-160: the command is launched with -t t; it opens the files the
\* list names, the first being cut/<stem>_empty<ext>
ConcatStart(r) ==
    /\ pc[r] = "list_written"
    /\ concatRead' = [concatRead EXCEPT ![r] = padding[args[r].video]]
    /\ Logged(r, Ev("concat", NoTime, t[r], "start", padding[args[r].video]))
    /\ Goto(r, "concat_running")
    /\ UNCHANGED <<args, raw_len, padded_len, lag, ss, t, fsVars, foVars, ftVars>>

\* line 160 returns and the with block ends (the list file is deleted), also
\* when the call raised.  The command cannot succeed without its first input.
ConcatEnd(r) ==
    /\ pc[r] = "concat_running"
    /\ \E o \in CmdOutcomes :
        /\ o = "ok" => concatRead[r] # 0
        /\ outputs' = IF o = "ok"
                      THEN outputs \cup {<<args[r].video, format_time(Abs(lag[r]), SampleRate)>>}
                      ELSE outputs
        /\ Logged(r, Ev("concat_end", NoTime, NoTime, o, 0))
        /\ IF o = "raise" THEN Finish(r, 1, "oserror") ELSE Goto(r, "concat_done")
    /\ listFile' = [listFile EXCEPT ![r] = FALSE]
    /\ UNCHANGED <<args, raw_len, padded_len, lag, ss, t, concatRead,
                   dirExists, dir0, padding, foVars, ftVars>>

RemoveEmptyBody(r) ==
    /\ IF padding[args[r].video] # 0
       THEN /\ padding' = [padding EXCEPT ![args[r].video] = 0]
            /\ Logged(r, Ev("remove", NoTime, NoTime, "ok", padding[args[r].video]))
            /\ Finish(r, 0, "")
       ELSE /\ UNCHANGED padding
            /\ Logged(r, Ev("remove", NoTime, NoTime, "enoent", 0))
            /\ Finish(r, 1, "enoent")
    /\ UNCHANGED <<args, raw_len, padded_len, lag, ss, t, concatRead,
                   dirExists, dir0, listFile, outputs, foVars, ftVars>>

RemoveEmptyEarly(r) ==
    /\ pc[r] \in {"concat_running", "concat_done"}
    /\ RemoveEmptyBody(r)

\* line 162: os.remove raises FileNotFoundError when the file is not there;
\* the script then ends
RemoveEmpty(r) ==
    /\ pc[r] = "concat_done"
    /\ RemoveEmptyBody(r)

(***************************************************************************)
(* lag >= 0: trim (lines 164-176).                                         *)
(***************************************************************************)
TrimStart(r) ==
    /\ pc[r] = "forward"
    /\ Logged(r, Ev("trim", ss[r], t[r], "start", 0))
    /\ Goto(r, "trim_running")
    /\ UNCHANGED <<args, raw_len, padded_len, lag, ss, t, concatRead, fsVars, foVars, ftVars>>

\* line 176 returns and the script ends
TrimEnd(r) ==
    /\ pc[r] = "trim_running"
    /\ \E o \in CmdOutcomes :
        /\ outputs' = IF o = "ok"
                      THEN outputs \cup {<<args[r].video, format_time(Abs(lag[r]), SampleRate)>>}
                      ELSE outputs
        /\ Logged(r, Ev("trim_end", NoTime, NoTime, o, 0))
        /\ IF o = "raise" THEN Finish(r, 1, "oserror") ELSE Finish(r, 0, "")
    /\ UNCHANGED <<args, raw_len, padded_len, lag, ss, t, concatRead,
                   dirExists, dir0, padding, listFile, foVars, ftVars>>

(***************************************************************************)
(* Specifications                                                          *)
(***************************************************************************)
PureOff ==
    /\ audio1 = <<>> /\ audio2 = <<>> /\ fo_pc = "off" /\ fo_lag = 0
    /\ frame = 0 /\ sample_rate = SampleRate /\ ft_pc = "off" /\ timecode = NoTime

RunsInit(active, argset) ==
    /\ pc = [r \in Runs |-> IF r \in active THEN "start" ELSE "off"]
    /\ \E given \in [active -> argset] :
          args = [r \in Runs |-> IF r \in active THEN given[r] ELSE DefaultArgs]
    /\ raw_len = [r \in Runs |-> 0]
    /\ padded_len = [r \in Runs |-> 0]
    /\ lag = [r \in Runs |-> 0]
    /\ ss = [r \in Runs |-> NoTime]
    /\ t = [r \in Runs |-> NoTime]
    /\ exitCode = [r \in Runs |-> -1]
    /\ err = [r \in Runs |-> ""]
    /\ log = [r \in Runs |-> <<>>]
    /\ concatRead = [r \in Runs |-> 0]
    /\ dir0 \in BOOLEAN
    /\ dirExists = dir0
    /\ padding = [v \in Videos |-> 0]
    /\ listFile = [r \in Runs |-> FALSE]
    /\ outputs = {}

\* one invocation
Init ==
    /\ RunsInit({1}, ArgSet)
    /\ PureOff

\* invocations that reach the edit, at the same time
ConcArgSet ==
    {a \in ArgSet : /\ a.probe = DefaultArgs.probe
                    /\ a.audioOk
                    /\ a.len1 = SampleRate /\ a.len2 = SampleRate}

InitConc ==
    /\ RunsInit({1, 2}, ConcArgSet)
    /\ PureOff

Step(r) ==
    \/ GetStreamInfo(r)
    \/ Makedirs(r)
    \/ AssertCodec(r)
    \/ LoadAudio(r)
    \/ Correlate(r)
    \/ CheckExit(r)
    \/ OutputName(r)
    \/ SynthStart(r)
    \/ SynthEnd(r)
    \/ WriteList(r)
    \/ ConcatStart(r)
    \/ ConcatEnd(r)
    \/ RemoveEmpty(r)
    \/ TrimStart(r)
    \/ TrimEnd(r)

Next == \E r \in Runs : Step(r)

Spec == Init /\ [][Next]_vars

SpecConc == InitConc /\ [][Next]_vars

InitOffset ==
    /\ RunsInit({}, ArgSet)
    /\ dir0 = FALSE
    /\ audio1 \in Signals /\ audio2 \in Signals
    /\ fo_pc = "loaded" /\ fo_lag = 0
    /\ frame = 0 /\ sample_rate = SampleRate /\ ft_pc = "off" /\ timecode = NoTime

NextOffset == FoInsertPadding \/ FoCorrelate

SpecOffset == InitOffset /\ [][NextOffset]_vars

InitFmt ==
    /\ RunsInit({}, ArgSet)
    /\ dir0 = FALSE
    /\ audio1 = <<>> /\ audio2 = <<>> /\ fo_pc = "off" /\ fo_lag = 0
    /\ sample_rate \in SampleRates
    /\ frame \in Frames(sample_rate)
    /\ ft_pc = "input" /\ timecode = NoTime

NextFmt == FtFormat

SpecFmt == InitFmt /\ [][NextFmt]_vars

(***************************************************************************)
(* Properties                                                              *)
(***************************************************************************)
Active == {r \in Runs : pc[r] # "off"}
Has(r, op) == \E i \in DOMAIN log[r] : log[r][i].op = op
Count(r, op) == Cardinality({i \in DOMAIN log[r] : log[r][i].op = op})
At(r, op) == CHOOSE i \in DOMAIN log[r] : log[r][i].op = op
NoFileWritten(r) ==
    /\ outputs = {}
    /\ \A v \in Videos : padding[v] = 0
    /\ ~listFile[r]
    /\ ~Has(r, "synth_end") /\ ~Has(r, "write_list")
    /\ ~Has(r, "concat_end") /\ ~Has(r, "trim_end")

\* C1: in non-check mode, when the video codec is not h264 or the audio
\* codec is not aac, the run has failed before any filesystem change: cut/
\* has not been created and no file has been written.
C1_CodecFailureBeforeFilesystem ==
    \A r \in Active :
        (~args[r].check /\ pc[r] = "done" /\ err[r] = "codec")
            => (dirExists = dir0 /\ NoFileWritten(r))

\* C2: once a run that entered the pad-and-concat branch has ended, the
\* padding file <stem>_empty<ext> does not exist, whether the concat command
\* succeeded, failed or could not be launched.
C2_PaddingFileGoneAtExit ==
    \A r \in Active :
        (pc[r] = "done" /\ Has(r, "synth")) => padding[args[r].video] = 0

FailedCall(e) ==
    \/ e.op = "probe" /\ e.st = "error"
    \/ e.op \in {"synth_end", "concat_end", "trim_end"} /\ e.st = "nonzero"

\* C3: an external process that returned a failure status (probe, synthesize,
\* concat, trim) aborts the run: nothing is executed after it and the run does
\* not end with exit code 0.
C3_FailedCommandAborts ==
    \A r \in Active :
        \A i \in DOMAIN log[r] :
            FailedCall(log[r][i])
                => /\ i = Len(log[r])
                   /\ pc[r] = "done" => exitCode[r] # 0

ShiftRight(a, k) ==
    [n \in 1..Len(a) |-> IF (n - k) \in 1..Len(a) THEN a[n - k] ELSE 0]
PeakCount(c) ==
    Cardinality({i \in DOMAIN c : \A j \in DOMAIN c : c[j] <= c[i]})
NonZero(a) == \E n \in DOMAIN a : a[n] # 0
\* shifting a by k moves no non-zero sample out of the window
KeepsContent(a, k) == \A n \in DOMAIN a : a[n] # 0 => (n + k) \in DOMAIN a

\* C4 (as claimed): when audio2 is audio1 shifted right by k samples with zero
\* fill and the correlation has a unique peak, the lag found is k.  Stated
\* for the shifts that keep all of audio1's content, where it is clearest.
C4_ShiftRecoveredAsK ==
    fo_pc = "correlated" =>
        \A k \in -MaxLen..MaxLen :
            ( /\ audio2 = ShiftRight(audio1, k)
              /\ NonZero(audio1)
              /\ KeepsContent(audio1, k)
              /\ PeakCount(correlate(audio1, audio1)) = 1
              /\ PeakCount(correlate(audio1, audio2)) = 1 )
                => fo_lag = k

\* C4 (amended): when audio2 is audio1 shifted right by k samples with zero
\* fill, audio1 is not all zero and the shift drops none of its non-zero
\* samples, the lag found is -k.
C4_ShiftRecoveredAsMinusK ==
    fo_pc = "correlated" =>
        \A k \in -MaxLen..MaxLen :
            ( /\ audio2 = ShiftRight(audio1, k)
              /\ NonZero(audio1)
              /\ KeepsContent(audio1, k) )
                => fo_lag = -k

C4_Witness ==
    /\ fo_pc = "correlated"
    /\ \E k \in {-2, -1, 1, 2} :
        /\ audio2 = ShiftRight(audio1, k)
        /\ NonZero(audio1)
        /\ KeepsContent(audio1, k)
        /\ fo_lag = -k
    /\ \E n \in DOMAIN audio1 : audio1[n] = -1

\* C9: for two signals of equal length N the lag is i - (N - 1), i the lowest
\* 0-based index at which the full cross-correlation (of length 2N - 1) is
\* maximal, and the lag lies in [-(N-1), N-1].
C9_LagIsFirstArgmax ==
    fo_pc = "correlated" =>
        LET c == correlate(audio1, audio2)
            N == Len(audio1)
            i == fo_lag + (N - 1)
        IN  /\ Len(audio2) = N
            /\ Len(c) = 2 * N - 1
            /\ i \in 0..(2 * N - 2)
            /\ \A j \in 0..(2 * N - 2) : c[j + 1] <= c[i + 1]
            /\ \A j \in 0..(i - 1) : c[j + 1] < c[i + 1]
            /\ -(N - 1) <= fo_lag /\ fo_lag <= N - 1

C9_Witness ==
    /\ fo_pc = "correlated"
    /\ Len(audio1) >= 2
    /\ PeakCount(correlate(audio1, audio2)) >= 2
    /\ NonZero(audio1) /\ NonZero(audio2)
    /\ fo_lag > -(Len(audio1) - 1)

\* C10: format_time gives a well-formed timecode of |frame| / sample_rate:
\* the same for frame and -frame, minutes in 00..59, and seconds (after
\* rounding to milliseconds) strictly below 60.000.
C10_TimecodeWellFormed ==
    ft_pc = "formatted" =>
        /\ timecode = format_time(-frame, sample_rate)
        /\ timecode[2] \in 0..59
        /\ timecode[3] \in 0..59
        /\ timecode[4] \in 0..999

EditOps == {"makedirs", "assert", "synth", "synth_end", "write_list",
            "concat", "concat_end", "remove", "trim", "trim_end"}
\* both tracks can be decoded (lines 83-84)
Decodable(r) == args[r].probe.acodec # "none" /\ args[r].audioOk
\* the run printed lag, start and duration (lines 95-100) and then left
\* through sys.exit(0) (line 103)
PrintedThenExit0(r) ==
    /\ exitCode[r] = 0
    /\ Len(log[r]) >= 2
    /\ log[r][Len(log[r])].op = "exit"
    /\ log[r][Len(log[r]) - 1].op = "print"
    /\ log[r][Len(log[r]) - 1].a = format_time(lag[r], SampleRate)
    /\ log[r][Len(log[r]) - 1].b = format_time(args[r].len2, SampleRate)
CheckModeTouchesNothing(r) ==
    /\ \A i \in DOMAIN log[r] : log[r][i].op \notin EditOps
    /\ dirExists = dir0
    /\ NoFileWritten(r)

\* C5 (as claimed): with --check and a successful probe the run never creates
\* cut/, never checks the codecs, never issues a synthesize, concat or trim
\* command, never writes a file, and ends with exit code 0 after printing
\* the lag and the two timecodes.
C5_CheckModeAlwaysExits0 ==
    \A r \in Active :
        (args[r].check /\ args[r].probe.st = "ok")
            => /\ CheckModeTouchesNothing(r)
               /\ pc[r] = "done" => PrintedThenExit0(r)

\* C5 (amended): with --check and a successful probe the run never creates
\* cut/, never checks the codecs, never issues a synthesize, concat or trim
\* command and never writes a file; when both audio tracks can be decoded it
\* ends with exit code 0 after printing the lag and the two timecodes,
\* whatever the codecs are.
C5_CheckModeExits0WhenDecodable ==
    \A r \in Active :
        (args[r].check /\ args[r].probe.st = "ok")
            => /\ CheckModeTouchesNothing(r)
               /\ (pc[r] = "done" /\ Decodable(r)) => PrintedThenExit0(r)
               /\ (pc[r] = "done" /\ ~Decodable(r)) => err[r] = "decode"

C5_Witness ==
    \E r \in Active :
        /\ args[r].check
        /\ args[r].probe.vcodec = "hevc"
        /\ args[r].probe.acodec = "mp3"
        /\ pc[r] = "done"
        /\ exitCode[r] = 0
        /\ Has(r, "print")
        /\ ~dirExists

\* the run ended because launching the synthesize command raised
SynthRaised(r) == Has(r, "synth_end") /\ log[r][At(r, "synth_end")].st = "raise"

\* C6: in non-check mode the sign of the lag alone selects the edit.
\* lag >= 0: one trim command (seek = timecode of |lag|, duration = timecode
\* of the probe track's length before padding), no synthesize, no concat.
\* lag < 0: one synthesize command (duration = timecode of |lag|) and one
\* concat command (duration = timecode of the length before padding), no trim.
\* The counts are those of the position reached: a run that is past a
\* command's place has issued it exactly once.
C6_EditChosenBySign ==
    \A r \in Active :
        (~args[r].check /\ Has(r, "print_name")) =>
            LET start == format_time(Abs(lag[r]), SampleRate)
                dur == format_time(args[r].len2, SampleRate)
            IN  IF lag[r] >= 0
                THEN /\ Count(r, "synth") = 0
                     /\ Count(r, "concat") = 0
                     /\ Count(r, "write_list") = 0
                     /\ Count(r, "trim") = IF pc[r] \in {"trim_running", "done"} THEN 1 ELSE 0
                     /\ \A i \in DOMAIN log[r] :
                            log[r][i].op = "trim" => log[r][i].a = start /\ log[r][i].b = dur
                ELSE /\ Count(r, "trim") = 0
                     /\ Count(r, "synth") = IF pc[r] = "backward" THEN 0 ELSE 1
                     /\ Count(r, "concat") =
                            IF \/ pc[r] \in {"concat_running", "concat_done"}
                               \/ pc[r] = "done" /\ ~SynthRaised(r)
                            THEN 1 ELSE 0
                     /\ \A i \in DOMAIN log[r] :
                            /\ log[r][i].op = "synth" => log[r][i].a = start
                            /\ log[r][i].op = "concat" => log[r][i].b = dur

C6_Witness ==
    \E r \in Active :
        /\ ~args[r].check
        /\ lag[r] < 0
        /\ args[r].len1 > args[r].len2
        /\ pc[r] = "done" /\ exitCode[r] = 0
        /\ Count(r, "synth") = 1 /\ Count(r, "concat") = 1
        /\ format_time(Abs(lag[r]), SampleRate) # format_time(args[r].len2, SampleRate)

\* C7: in the pad-and-concat branch the synthesize command has returned before
\* the concat command is started, and the concat command has returned before
\* the padding file is removed; the file a running concat command opened is
\* still there.
C7_PadConcatOrdered ==
    \A r \in Active :
        /\ Has(r, "concat") =>
              /\ Has(r, "synth_end")
              /\ At(r, "synth") < At(r, "synth_end")
              /\ At(r, "synth_end") < At(r, "concat")
              /\ log[r][At(r, "synth_end")].st # "raise"
        /\ Has(r, "remove") =>
              /\ Has(r, "concat_end")
              /\ At(r, "concat") < At(r, "concat_end")
              /\ At(r, "concat_end") < At(r, "remove")
        /\ pc[r] = "concat_running" =>
              /\ ~Has(r, "remove")
              /\ concatRead[r] # 0 => padding[args[r].video] = concatRead[r]

C7_Witness ==
    \E r \in Active :
        /\ pc[r] = "done" /\ exitCode[r] = 0
        /\ Has(r, "remove")
        /\ log[r][At(r, "remove")].st = "ok"
        /\ log[r][At(r, "concat_end")].st = "ok"
        /\ padding[args[r].video] = 0

\* C8: concurrent pad-and-concat runs do not collide on temporary files: a run
\* overwrites and deletes only padding files it wrote itself, and the padding
\* file its concat command reads is the one it synthesized, still in place.
C8_NoTempFileCollision ==
    \A r \in Active :
        /\ \A i \in DOMAIN log[r] :
              log[r][i].op \in {"synth_end", "remove"} => log[r][i].who \in {0, r}
        /\ ( /\ Has(r, "concat")
             /\ log[r][At(r, "synth_end")].st = "ok" )
              => concatRead[r] = r

====
